---- MODULE Spec2Model ----
(***************************************************************************)
(* Lunar phase annotation around the full-moon axis (phi = 180 degrees).   *)
(*                                                                         *)
(* Two annotators are modelled:                                            *)
(*   - the closed-form one of phase_symmetry_offline.py (julian_day,       *)
(*     lunar_phase_angle, assign_nayin_hexagram,                           *)
(*     is_evening_or_morning_simplified, annotate_lunar_state);            *)
(*   - the ephemeris-backed one of phase_symmetry.py, whose phase angle    *)
(*     and rise/set instants come from the ephemeris library and are       *)
(*     therefore inputs of the model.                                      *)
(*                                                                         *)
(* Angles are integers in units of 1/DegUnit degree (0.001 degree), so     *)
(* that the strict and the closed comparisons of the code are told apart   *)
(* and rounding to two decimals is a real operation.  Julian days are      *)
(* kept doubled (JD2 = 2 * JD) because julian_day returns k + 0.5.         *)
(* Instants of a day are minutes after the day's start.                    *)
(*                                                                         *)
(* Labels are transliterated: Zhen, Dui, Qian, Xun, Gen, Kun are the six   *)
(* hexagram symbols; geng, ding, jia, xin, bing, yi, gui the stems.        *)
(***************************************************************************)
EXTENDS Integers, Sequences, FiniteSets, TLC

VARIABLES
    pc,          \* "idle": no call in progress; "returned": a record was returned;
                 \* "raised": the call ended in an exception; "batch": a batch
                 \* loop is running; "batch_done": it returned its results
    variant,     \* "none" | "offline" | "offline_phi" | "ephem" | "phase" |
                 \* "julian" | "batch": the entry point called
    date,        \* <<year, month, day>> of the call, or None
    jd,          \* doubled Julian day handed to lunar_phase_angle, or None
    events,      \* what the rise/set solver answered (ephemeris variant), or None
    phi,         \* the unrounded phase angle, in units
    sym_offset,  \* the unrounded symmetry offset, in units
    rec,         \* the returned record, or None
    batch        \* the running batch loop: its driver, year, current date, the
                 \* dates of the records appended so far, the last record in
                 \* full and whether the last call raised; or None

vars == <<pc, variant, date, jd, events, phi, sym_offset, rec, batch>>

None == "None"

-----------------------------------------------------------------------------
(* Units and bounds *)

DegUnit == 10 * 100
Deg(d) == d * DegUnit
Circle == Deg(360)

\* Half-width, in days, of the band of Julian days around the J2000 epoch
\* that is fed to lunar_phase_angle directly.
MaxEpochDays == 60

\* Number of years after 727 whose days are annotated.
YearSpan == 1

\* The model's day has DaySlots half-hour slots; rise/set instants fall on
\* slot boundaries.
DaySlots == 7

-----------------------------------------------------------------------------
(* Calendar converter *)

\* Python's int() of a quotient: truncation toward zero.
TruncDiv(a, b) == IF a >= 0 THEN a \div b ELSE -((-a) \div b)

\* julian_day with the century correction B left out (the Julian-calendar
\* formula).
julian_day_no_century(year, month, day) ==
    LET y == IF month <= 2 THEN year - 1 ELSE year
        m == IF month <= 2 THEN month + 12 ELSE month
    IN  2 * (TruncDiv(36525 * (y + 4716), 100)
             + TruncDiv(306001 * (m + 1), 10000) + day) - 3049

\* julian_day(year, month, day), doubled.  365.25 and 30.6001 are applied as
\* the exact decimals they denote, then truncated as int() does.
julian_day(year, month, day) ==
    LET y == IF month <= 2 THEN year - 1 ELSE year
        m == IF month <= 2 THEN month + 12 ELSE month
        A == TruncDiv(y, 100)
        B == 2 - A + TruncDiv(A, 4)
    IN  2 * (TruncDiv(36525 * (y + 4716), 100)
             + TruncDiv(306001 * (m + 1), 10000) + day + B) - 3049

IsLeap(y) == (y % 4 = 0) /\ ((y % 100 # 0) \/ (y % 400 = 0))

DaysInMonth(y, m) ==
    IF m = 2 THEN (IF IsLeap(y) THEN 29 ELSE 28)
    ELSE IF m \in {4, 6, 9, 11} THEN 30 ELSE 31

\* The dates the drivers feed to the annotator: every day of the year.
generate_date_range(year) ==
    {dt \in {year} \X (1..12) \X (1..31) : dt[3] <= DaysInMonth(year, dt[2])}

-----------------------------------------------------------------------------
(* Phase angle model (closed form) *)

\* A remainder that keeps the sign of the dividend (C's fmod).
PyModTrunc(x, m) == IF x >= 0 THEN x % m ELSE -((-x) % m)

\* Python's % on a positive modulus: the result has the sign of the modulus.
PyMod(x, m) == x % m

\* Longitudes are accumulated in micro-degrees and reduced modulo MicroCircle.
MicroCircle == 360 * 1000000

\* n * (qn + rn / den) as <<q, r>>: the product is q' + r / den with
\* 0 <= r < den and q = q' mod m.  For n >= 0 and 0 <= rn < den, by binary
\* long multiplication, so that no intermediate value exceeds 32 bits.
RECURSIVE MulDivQR(_, _, _, _, _)
MulDivQR(n, qn, rn, den, m) ==
    IF n = 0 THEN <<0, 0>>
    ELSE LET h   == MulDivQR(n \div 2, qn, rn, den, m)
             odd == n % 2
             r2  == 2 * h[2] + odd * rn
         IN  <<(2 * h[1] + odd * qn + (r2 \div den)) % m, r2 % den>>

Abs(n) == IF n >= 0 THEN n ELSE -n

\* n * a * b / den truncated toward zero and reduced modulo m, sign kept.
\* (The rate a * b / den is bound through a singleton set so that it is
\* evaluated once, before the second multiplication.)
MulMulDiv(n, a, b, den, m) ==
    LET mag == CHOOSE q \in {MulDivQR(Abs(n), rate[1], rate[2], den, m)[1] :
                             rate \in {MulDivQR(a, b \div den, b % den, den, m)}} : TRUE
    IN  IF n >= 0 THEN mag ELSE -mag

J2000 == 2451545
JulianCentury == 36525

\* T = (jd - 2451545.0) / 36525.0 is kept exact as n / HalfDaysPerCentury,
\* n the doubled day count from J2000.
HalfDaysPerCentury == 2 * JulianCentury

\* T * T * HalfDaysPerCentury
TSquared(n) == MulMulDiv(Abs(n), Abs(n), 1, HalfDaysPerCentury, MicroCircle)

\* sun_mean_longitude = (280.46646 + T * (36000.76983 + 0.0003032 * T)) % 360
\* in micro-degrees, the products distributed over the decimal parts of the
\* coefficients.
sun_mean_longitude(n) ==
    PyMod(280466460
          + MulMulDiv(n, 36000, 1000000, HalfDaysPerCentury, MicroCircle)
          + MulMulDiv(n, 76983, 10, HalfDaysPerCentury, MicroCircle)
          + MulMulDiv(TSquared(n), 3032, 1, 10 * HalfDaysPerCentury, MicroCircle),
          MicroCircle)

\* moon_mean_longitude =
\*     (218.3164477 + T * (481267.88123421 - 0.0015786 * T)) % 360
moon_mean_longitude(n) ==
    PyMod(218316447
          + MulMulDiv(n, 481267, 1000000, HalfDaysPerCentury, MicroCircle)
          + MulMulDiv(n, 88123421, 1, 100 * HalfDaysPerCentury, MicroCircle)
          - MulMulDiv(TSquared(n), 15786, 1, 10 * HalfDaysPerCentury, MicroCircle),
          MicroCircle)

\* lunar_phase_angle(jd) for the doubled Julian day jd2, in units.
lunar_phase_angle(jd2) ==
    LET n == jd2 - 2 * J2000
    IN  PyMod(moon_mean_longitude(n) - sun_mean_longitude(n), MicroCircle)
            \div (1000000 \div DegUnit)

-----------------------------------------------------------------------------
(* Hexagram classifier *)

\* The window tables, in the iteration order of the dict literals.
\* The closed-form table with dui starting where zhen ends.
OfflineBoundsOverlap ==
    << [name |-> "zhen", low |-> 15,  high |-> 45],
       [name |-> "dui",  low |-> 45,  high |-> 105],
       [name |-> "qian", low |-> 165, high |-> 195],
       [name |-> "gen",  low |-> 255, high |-> 285],
       [name |-> "xun",  low |-> 215, high |-> 245],
       [name |-> "kun",  low |-> 315, high |-> 345] >>

OfflineBounds ==
    << [name |-> "zhen", low |-> 15,  high |-> 45],
       [name |-> "dui",  low |-> 75,  high |-> 105],
       [name |-> "qian", low |-> 165, high |-> 195],
       [name |-> "gen",  low |-> 255, high |-> 285],
       [name |-> "xun",  low |-> 215, high |-> 245],
       [name |-> "kun",  low |-> 315, high |-> 345] >>

OfflineMapping ==
    [zhen |-> <<"Zhen", "geng">>, dui |-> <<"Dui", "ding">>,
     qian |-> <<"Qian", "jia">>,  xun |-> <<"Xun", "xin">>,
     gen  |-> <<"Gen", "bing">>,  kun |-> <<"Kun", "yi">>]

EphemBounds ==
    << [name |-> "zhen", low |-> 30,  high |-> 60],
       [name |-> "dui",  low |-> 120, high |-> 150],
       [name |-> "qian", low |-> 165, high |-> 195],
       [name |-> "gen",  low |-> 210, high |-> 240],
       [name |-> "xun",  low |-> 300, high |-> 330],
       [name |-> "kun",  low |-> 345, high |-> 15] >>

EphemMapping ==
    [zhen |-> <<"Zhen", "xin">>, dui |-> <<"Dui", "ding">>,
     qian |-> <<"Qian", "jia">>, xun |-> <<"Xun", "gui">>,
     gen  |-> <<"Gen", "bing">>, kun |-> <<"Kun", "yi">>]

\* The window test with both bounds excluded.
InWindowStrict(low, high, p) == Deg(low) < p /\ p < Deg(high)

\* The window test of the loop: low <= phi <= high.
InWindow(low, high, p) == Deg(low) <= p /\ p <= Deg(high)

\* for name, (low, high) in bounds.items(): first window containing phi.
assign_nayin_hexagram(bounds, mapping, p) ==
    LET hits == {i \in 1..Len(bounds) : InWindow(bounds[i].low, bounds[i].high, p)}
    IN  IF hits = {} THEN <<None, None>>
        ELSE mapping[bounds[CHOOSE i \in hits : \A k \in hits : i <= k].name]

assign_offline(p) == assign_nayin_hexagram(OfflineBounds, OfflineMapping, p)

assign_ephem(p) == assign_nayin_hexagram(EphemBounds, EphemMapping, p)

-----------------------------------------------------------------------------
(* Visibility classifiers *)

\* The simplified rule with the evening and morning halves exchanged.
is_evening_or_morning_swapped(phase_angle) ==
    IF phase_angle > Deg(350) \/ phase_angle < Deg(10) THEN "none"
    ELSE IF phase_angle >= Deg(170) /\ phase_angle <= Deg(190) THEN "both"
    ELSE IF phase_angle < Deg(180) THEN "morning"
    ELSE "evening"

is_evening_or_morning_simplified(phase_angle) ==
    IF phase_angle > Deg(350) \/ phase_angle < Deg(10) THEN "none"
    ELSE IF phase_angle >= Deg(170) /\ phase_angle <= Deg(190) THEN "both"
    ELSE IF phase_angle < Deg(180) THEN "evening"
    ELSE "morning"

WindowMinutes == 60

\* The test of one twilight window against the first moonrise and moonset.
MoonInWindow(moon_rise, moon_set, w_start, w_end) ==
    moon_rise <= w_end /\ moon_set >= w_start

\* The outcome of a call that ends in an exception instead of a value.
Raised == "raised"

\* is_evening_or_morning without its two try/except blocks: a failure of the
\* solver reaches the caller.
is_evening_or_morning_uncaught(ev) ==
    IF ev.sun.raises \/ ev.moon.raises THEN Raised
    ELSE IF \/ ev.sun.rises = <<>> \/ ev.sun.sets = <<>>
            \/ ev.moon.rises = <<>> \/ ev.moon.sets = <<>> THEN "none"
    ELSE LET evening == MoonInWindow(ev.moon.rises[1], ev.moon.sets[1],
                                     ev.sun.sets[1], ev.sun.sets[1] + WindowMinutes)
             morning == MoonInWindow(ev.moon.rises[1], ev.moon.sets[1],
                                     ev.sun.rises[1] - WindowMinutes, ev.sun.rises[1])
         IN  IF evening /\ morning THEN "both"
             ELSE IF evening THEN "evening"
             ELSE IF morning THEN "morning"
             ELSE "none"

\* is_evening_or_morning(jd, location), given what find_discrete answered
\* for the Sun and for the Moon: raises, or the day's rises and sets.
is_evening_or_morning(ev) ==
    IF ev.sun.raises THEN "none"
    ELSE IF ev.moon.raises THEN "none"
    ELSE IF \/ ev.sun.rises = <<>> \/ ev.sun.sets = <<>>
            \/ ev.moon.rises = <<>> \/ ev.moon.sets = <<>> THEN "none"
    ELSE LET sun_rise   == ev.sun.rises[1]
             sun_set    == ev.sun.sets[1]
             moon_rise  == ev.moon.rises[1]
             moon_set   == ev.moon.sets[1]
             dusk_start == sun_set
             dusk_end   == sun_set + WindowMinutes
             dawn_start == sun_rise - WindowMinutes
             dawn_end   == sun_rise
             evening    == MoonInWindow(moon_rise, moon_set, dusk_start, dusk_end)
             morning    == MoonInWindow(moon_rise, moon_set, dawn_start, dawn_end)
         IN  IF evening /\ morning THEN "both"
             ELSE IF evening THEN "evening"
             ELSE IF morning THEN "morning"
             ELSE "none"

-----------------------------------------------------------------------------
(* Annotator *)

\* The unsigned angular distance to 180 degrees.
SymmetryOffsetUnsigned(p) == IF p >= Deg(180) THEN p - Deg(180) ELSE Deg(180) - p

\* The offset with the inner "- 180" dropped: ((phi + 180) % 360) - 180.
SymmetryOffsetShifted(p) == PyMod(p + Deg(180), Circle) - Deg(180)

\* sym_offset = ((phi - 180 + 180) % 360) - 180
SymmetryOffset(p) == PyMod(p - Deg(180) + Deg(180), Circle) - Deg(180)

\* round(x, 2): to the nearest hundredth of a degree (a half goes up).
Round2(v) == ((v + (DegUnit \div 200)) \div (DegUnit \div 100)) * (DegUnit \div 100)

\* The pivot test decided on the rounded phase angle.
IsPivotRounded(p) ==
    \/ (Deg(165) <= Round2(p) /\ Round2(p) <= Deg(195))
    \/ Round2(p) <= Deg(15) \/ Round2(p) >= Deg(345)

\* The pivot test without its elif branch: the full-moon band only.
IsPivotFullMoonOnly(p) ==
    IF Deg(165) <= p /\ p <= Deg(195) THEN TRUE
    ELSE FALSE

IsPivot(p) ==
    IF Deg(165) <= p /\ p <= Deg(195) THEN TRUE
    ELSE IF p <= Deg(15) \/ p >= Deg(345) THEN TRUE
    ELSE FALSE

CycleHalf(p) == IF p < Deg(180) THEN "upper" ELSE "lower"

LunarStateRecord(dt, p, hex, vis) ==
    [date |-> dt,
     phase_angle |-> Round2(p),
     sym_offset_from_full |-> Round2(SymmetryOffset(p)),
     hexagram |-> hex[1],
     tiangan |-> hex[2],
     visibility |-> vis,
     is_pivot |-> IsPivot(p),
     cycle_half |-> CycleHalf(p)]

-----------------------------------------------------------------------------
(* Inputs *)

\* current + timedelta(days=1): the next day of the proleptic Gregorian
\* calendar.
NextDay(dt) ==
    IF dt[3] < DaysInMonth(dt[1], dt[2]) THEN <<dt[1], dt[2], dt[3] + 1>>
    ELSE IF dt[2] < 12 THEN <<dt[1], dt[2] + 1, 1>>
    ELSE <<dt[1] + 1, 1, 1>>

\* Years handed to julian_day: two before the common era (astronomical
\* numbering), year 0 and year 1, the year of the study, a century year that
\* is not a leap year, one that is, and an ordinary leap year.
CalendarYears == {-100, -99, 0, 1, 727, 1900, 2000, 2024}

CalendarDates == UNION {generate_date_range(y) : y \in CalendarYears}

\* The years fed to the annotator: 727, the year of the batch driver and of
\* the reference dates, and the YearSpan years after it.
\* d1 is an earlier calendar date than d2 (datetime comparison).
Before(d1, d2) ==
    \/ d1[1] < d2[1]
    \/ d1[1] = d2[1] /\ d1[2] < d2[2]
    \/ d1[1] = d2[1] /\ d1[2] = d2[2] /\ d1[3] < d2[3]

Years == 727 .. (727 + YearSpan)

Dates == UNION {generate_date_range(y) : y \in Years}

\* Doubled Julian days around the epoch: whole and half days, T < 0 and T > 0.
JDInputs == (2 * J2000 - 2 * MaxEpochDays) .. (2 * J2000 + 2 * MaxEpochDays)

\* Phase angles in [0, 360): every whole degree, and values just above it,
\* half-way to the next and just below the next.
PhiInputs == {Deg(d) + e : d \in 0 .. 359, e \in {0, 1, 5, 500, 995, 999}}

Instants == {30 * k : k \in 0 .. DaySlots}

OptInstant == {<<>>} \cup {<<t>> : t \in Instants}

\* What find_discrete can answer for one body: it raises, or it returns the
\* day's rises and sets (here at most one of each, at different instants).
SolverAnswers ==
    {[raises |-> TRUE, rises |-> <<>>, sets |-> <<>>]} \cup
    {a \in [raises : {FALSE}, rises : OptInstant, sets : OptInstant] :
        a.rises = <<>> \/ a.rises # a.sets}

AllEvents == [sun : SolverAnswers, moon : SolverAnswers]

EphemDate == <<727, 3, 15>>

\* The ephemeris annotator's inputs: every phase angle with the solver
\* failing, and every solver answer at full moon.
EphemInputs ==
    (PhiInputs \X {e \in AllEvents : e.sun.raises /\ e.moon.raises})
    \cup ({Deg(180)} \X AllEvents)

-----------------------------------------------------------------------------
(* State machine *)

Init ==
    /\ pc = "idle" /\ variant = "none" /\ date = None /\ jd = None
    /\ events = None /\ phi = None /\ sym_offset = None /\ rec = None
    /\ batch = None

\* phase_symmetry_offline.annotate_lunar_state(date_utc)
AnnotateOffline ==
    /\ pc = "idle"
    /\ UNCHANGED batch
    /\ \E dt \in Dates :
        /\ pc' = "returned" /\ variant' = "offline" /\ date' = dt
        /\ jd' = julian_day(dt[1], dt[2], dt[3])
        /\ phi' = lunar_phase_angle(jd')
        /\ sym_offset' = SymmetryOffset(phi')
        /\ rec' = LunarStateRecord(dt, phi', assign_offline(phi'),
                                   is_evening_or_morning_simplified(phi'))
        /\ events' = None

\* The same annotator on a date whose phase angle is p: lunar_phase_angle
\* ranges over [0, 360) as the date varies, so p is drawn directly.
AnnotateOfflineAt ==
    /\ pc = "idle"
    /\ UNCHANGED batch
    /\ \E p \in PhiInputs :
        /\ pc' = "returned" /\ variant' = "offline_phi"
        /\ date' = None /\ jd' = None
        /\ phi' = p
        /\ sym_offset' = SymmetryOffset(phi')
        /\ rec' = LunarStateRecord(None, phi', assign_offline(phi'),
                                   is_evening_or_morning_simplified(phi'))
        /\ events' = None

\* phase_symmetry.annotate_lunar_state(date_utc, location): the phase angle
\* and the solver's answers come from the ephemeris.  An exception leaving
\* is_evening_or_morning leaves annotate_lunar_state too: no record.
AnnotateEphem ==
    /\ pc = "idle"
    /\ UNCHANGED batch
    /\ \E in \in EphemInputs :
        /\ variant' = "ephem"
        /\ date' = EphemDate /\ jd' = None
        /\ events' = in[2]
        /\ phi' = in[1]
        /\ sym_offset' = SymmetryOffset(phi')
        /\ IF is_evening_or_morning(events') = Raised
           THEN pc' = "raised" /\ rec' = None
           ELSE /\ pc' = "returned"
                /\ rec' = LunarStateRecord(EphemDate, phi', assign_ephem(phi'),
                                           is_evening_or_morning(events'))

\* A direct call of lunar_phase_angle(jd), as the historical-record search
\* makes for whole Julian days.
LunarPhaseAngle ==
    /\ pc = "idle"
    /\ UNCHANGED batch
    /\ \E j \in JDInputs :
        /\ pc' = "returned" /\ variant' = "phase" /\ date' = None /\ jd' = j
        /\ phi' = lunar_phase_angle(j)
        /\ sym_offset' = None /\ rec' = None /\ events' = None

\* phase_symmetry_offline.annotate_lunar_state(date_utc) as the batch loops
\* call it.
annotate_lunar_state(dt) ==
    CHOOSE r \in {LunarStateRecord(dt, p, assign_offline(p),
                                    is_evening_or_morning_simplified(p)) :
                  p \in {lunar_phase_angle(julian_day(dt[1], dt[2], dt[3]))}} : TRUE

BatchDrivers == {"batch_process_727", "multi_year_comparison"}

\* The record the except clause appends.
DegradedRecord(dt) ==
    [date |-> dt,
     phase_angle |-> None,
     sym_offset_from_full |-> None,
     hexagram |-> None,
     tiangan |-> None,
     visibility |-> "error",
     is_pivot |-> FALSE,
     cycle_half |-> None]

\* results.append(record), then the next date.
BatchAppend(b, record, failed) ==
    [b EXCEPT !.dates = Append(@, b.current), !.last = record,
              !.raised = failed, !.current = NextDay(@)]

\* try: state = annotate_lunar_state(current); results.append(state)
AppendState(b) == BatchAppend(b, annotate_lunar_state(b.current), FALSE)

\* An except clause that swallows the failure and appends nothing.
HandleRaiseSkip(b) == [b EXCEPT !.raised = TRUE, !.current = NextDay(@)]

\* except: results.append({... "visibility": "error" ...})
HandleRaise(b) == BatchAppend(b, DegradedRecord(b.current), TRUE)

\* julian_day(year, month, day) on its own.
JulianDay ==
    /\ pc = "idle"
    /\ UNCHANGED batch
    /\ \E dt \in CalendarDates :
        /\ pc' = "returned" /\ variant' = "julian" /\ date' = dt
        /\ jd' = julian_day(dt[1], dt[2], dt[3])
        /\ phi' = None /\ sym_offset' = None /\ rec' = None /\ events' = None

\* The two batch loops: main of batch_process_727 (year 727) and
\* generate_year_data(year) of multi_year_comparison.  results = [], the first
\* date is 1 January.
BatchStart ==
    /\ pc = "idle"
    /\ \E drv \in BatchDrivers :
        \E y \in (IF drv = "batch_process_727" THEN {727} ELSE Years) :
            batch' = [driver |-> drv, year |-> y, current |-> <<y, 1, 1>>,
                      dates |-> <<>>, last |-> None, raised |-> FALSE]
    /\ pc' = "batch" /\ variant' = "batch"
    /\ UNCHANGED <<date, jd, events, phi, sym_offset, rec>>

\* One pass of the loop body while current <= end: annotate_lunar_state
\* returns a record, or raises and the except clause takes over.
BatchStep ==
    /\ pc = "batch"
    /\ ~Before(<<batch.year, 12, 31>>, batch.current)
    /\ \E raises \in BOOLEAN :
        batch' = IF raises THEN HandleRaise(batch) ELSE AppendState(batch)
    /\ UNCHANGED <<pc, variant, date, jd, events, phi, sym_offset, rec>>

\* current > end: the loop is left and results is returned.
BatchEnd ==
    /\ pc = "batch"
    /\ Before(<<batch.year, 12, 31>>, batch.current)
    /\ pc' = "batch_done"
    /\ UNCHANGED <<variant, date, jd, events, phi, sym_offset, rec, batch>>

\* The caller takes the result; the next call starts afresh.
Return ==
    /\ pc \in {"returned", "raised", "batch_done"}
    /\ pc' = "idle" /\ variant' = "none" /\ date' = None /\ jd' = None
    /\ events' = None /\ phi' = None /\ sym_offset' = None /\ rec' = None
    /\ batch' = None

Next ==
    \/ AnnotateOffline
    \/ AnnotateOfflineAt
    \/ AnnotateEphem
    \/ LunarPhaseAngle
    \/ JulianDay
    \/ BatchStart
    \/ BatchStep
    \/ BatchEnd
    \/ Return

Spec == Init /\ [][Next]_vars

-----------------------------------------------------------------------------
(* Properties *)

\* A record was returned by one of the annotators.
Annotated == pc = "returned" /\ variant \in {"offline", "offline_phi", "ephem"}

\* A record was returned by the closed-form annotator.
AnnotatedOffline == pc = "returned" /\ variant \in {"offline", "offline_phi"}

\* C1 (as stated): the offset at phi = 180 + d is the negative of the offset
\* at 360 - phi = 180 - d, for every d with both angles in [0, 360]; every
\* phi in [0, 360) is such an angle.
C1_ReflectionClosed ==
    Annotated => sym_offset = -SymmetryOffset(Circle - phi)

\* C1 (amended): the offset at phi = 180 + d is the negative of the offset at
\* 180 - d for every d with both angles strictly inside (0, 360).
C1_Reflection ==
    (Annotated /\ phi > 0) => sym_offset = -SymmetryOffset(Circle - phi)

C1_Witness ==
    /\ Annotated /\ phi = Deg(200) /\ sym_offset = Deg(20)
    /\ SymmetryOffset(Deg(160)) = -Deg(20)

\* C2 (as stated): the unrounded offset lies in (-180, 180] and is 0 at
\* phi = 180.
C2_RangeHalfOpenBelow ==
    Annotated => /\ -Deg(180) < sym_offset /\ sym_offset <= Deg(180)
                 /\ (phi = Deg(180) => sym_offset = 0)

\* C2 (amended): the unrounded offset lies in [-180, 180), is -180 exactly
\* at phi = 0 and is 0 at phi = 180.
C2_Range ==
    Annotated => /\ -Deg(180) <= sym_offset /\ sym_offset < Deg(180)
                 /\ (phi = Deg(180) => sym_offset = 0)
                 /\ (sym_offset = -Deg(180) <=> phi = 0)

C2_Witness == Annotated /\ phi = 0 /\ sym_offset = -Deg(180)

\* C3: lunar_phase_angle returns 0 <= phi < 360 for Julian days before and
\* after the epoch.
C3_PhaseRange ==
    (pc = "returned" /\ variant \in {"offline", "phase"})
        => (0 <= phi /\ phi < Circle)

\* A day before the epoch on which the Moon's reduced mean longitude is
\* below the Sun's, so that the difference is negative before the last
\* reduction.
C3_Witness ==
    /\ pc = "returned" /\ variant = "phase" /\ jd < 2 * J2000
    /\ moon_mean_longitude(jd - 2 * J2000) < sun_mean_longitude(jd - 2 * J2000)
    /\ phi > Deg(180) /\ phi < Circle

\* C4: the reference date 727-03-15 yields phi in [165, 195], is_pivot,
\* the Qian hexagram, and cycle_half "lower" exactly when phi >= 180.
C4_ReferenceDate ==
    (pc = "returned" /\ variant = "offline" /\ date = <<727, 3, 15>>)
        => /\ Deg(165) <= phi /\ phi <= Deg(195)
           /\ rec.is_pivot
           /\ rec.hexagram = "Qian"
           /\ (rec.cycle_half = "lower" <=> phi >= Deg(180))

\* C5: phi = 0 and phi = 360 are classified alike, as the Kun window with
\* visibility "none"; exactly one window matches at the seam.
C5_Seam ==
    (AnnotatedOffline /\ phi = 0)
        => /\ rec.hexagram = "Kun"
           /\ assign_offline(Circle) = <<rec.hexagram, rec.tiangan>>
           /\ assign_ephem(0) = assign_ephem(Circle)
           /\ assign_ephem(0)[1] = "Kun"
           /\ rec.visibility = "none"
           /\ is_evening_or_morning_simplified(Circle) = "none"

\* C6: in the ephemeris-backed table Kun wraps across 0/360: every phi with
\* phi >= 345 or phi <= 15 is labelled (Kun, yi).
C6_KunWraps ==
    (pc = "returned" /\ variant = "ephem"
        /\ (phi >= Deg(345) \/ phi <= Deg(15)))
        => (rec.hexagram = "Kun" /\ rec.tiangan = "yi")

\* C7: the classifier is total: the record carries the pair of the window
\* that contains phi under low <= phi <= high, and (None, None) - both or
\* neither - when no window does; 60 degrees is such a gap of the
\* closed-form table.
C7_TotalWithGaps ==
    Annotated =>
        LET bounds  == IF variant = "ephem" THEN EphemBounds ELSE OfflineBounds
            mapping == IF variant = "ephem" THEN EphemMapping ELSE OfflineMapping
            inside  == {i \in 1..Len(bounds) :
                           Deg(bounds[i].low) <= phi /\ phi <= Deg(bounds[i].high)}
        IN  /\ (rec.hexagram = None <=> rec.tiangan = None)
            /\ (rec.hexagram = None <=> inside = {})
            /\ (rec.hexagram # None =>
                   \E i \in inside :
                       <<rec.hexagram, rec.tiangan>> = mapping[bounds[i].name])
            /\ ((variant # "ephem" /\ phi = Deg(60)) => rec.hexagram = None)

C7_Witness ==
    /\ Annotated /\ variant = "offline_phi" /\ phi = Deg(60)
    /\ rec.hexagram = None /\ rec.tiangan = None

\* A labelled boundary angle: 15 degrees is the closed lower bound of Zhen.
C7_WitnessLabelled ==
    /\ Annotated /\ variant = "offline_phi" /\ phi = Deg(15)
    /\ rec.hexagram = "Zhen" /\ rec.tiangan = "geng"

\* C8: is_pivot holds exactly when 165 <= phi <= 195 or phi <= 15 or
\* phi >= 345, on the unrounded phi.
C8_Pivot ==
    Annotated =>
        (rec.is_pivot <=> \/ (Deg(165) <= phi /\ phi <= Deg(195))
                          \/ phi <= Deg(15) \/ phi >= Deg(345))

\* An angle just above 15 degrees: its rounded value is 15.00, it is no pivot.
C8_Witness ==
    /\ Annotated /\ phi = Deg(15) + 1 /\ rec.phase_angle = Deg(15)
    /\ ~rec.is_pivot

\* C9: the simplified visibility is "none" for phi <= 10 or phi >= 350,
\* "both" for 170 <= phi <= 190, else "evening" below 180 and "morning"
\* above: both bands closed.
C9_SimplifiedClosedBands ==
    AnnotatedOffline =>
        rec.visibility =
            IF phi <= Deg(10) \/ phi >= Deg(350) THEN "none"
            ELSE IF Deg(170) <= phi /\ phi <= Deg(190) THEN "both"
            ELSE IF phi < Deg(180) THEN "evening"
            ELSE "morning"

\* The Moon is up between a rise and the following set: from the rise to the
\* set when the day's first rise precedes its first set, and otherwise until
\* the set and again from the rise.
MoonUpAt(t, moon_rise, moon_set) ==
    IF moon_rise < moon_set THEN moon_rise <= t /\ t <= moon_set
    ELSE t <= moon_set \/ t >= moon_rise

MoonUpDuring(w_start, w_end, moon_rise, moon_set) ==
    \E t \in w_start .. w_end : MoonUpAt(t, moon_rise, moon_set)

Resolved(ev) ==
    /\ ~ev.sun.raises /\ ~ev.moon.raises
    /\ ev.sun.rises # <<>> /\ ev.sun.sets # <<>>
    /\ ev.moon.rises # <<>> /\ ev.moon.sets # <<>>

DayEnd == 30 * DaySlots

\* C10: with the four instants resolved (and both twilight windows inside
\* the day), the visibility is "both", "evening", "morning" or "none"
\* according to whether the Moon is above the horizon at some instant of the
\* dusk window [sunset, sunset + 60] and of the dawn window
\* [sunrise - 60, sunrise], for every ordering of the four instants.
C10_PreciseVisibility ==
    (pc = "returned" /\ variant = "ephem" /\ Resolved(events)
        /\ events.sun.sets[1] + WindowMinutes <= DayEnd
        /\ events.sun.rises[1] - WindowMinutes >= 0)
        => LET up_dusk == MoonUpDuring(events.sun.sets[1],
                                       events.sun.sets[1] + WindowMinutes,
                                       events.moon.rises[1], events.moon.sets[1])
               up_dawn == MoonUpDuring(events.sun.rises[1] - WindowMinutes,
                                       events.sun.rises[1],
                                       events.moon.rises[1], events.moon.sets[1])
           IN  rec.visibility =
                   IF up_dusk /\ up_dawn THEN "both"
                   ELSE IF up_dusk THEN "evening"
                   ELSE IF up_dawn THEN "morning"
                   ELSE "none"

\* C11: when the solver raises for the Sun or for the Moon, or one of the
\* four instants is absent, the visibility is "none" and the annotator still
\* returns a record (nothing is raised to its caller).
C11_FailSafe ==
    (pc \in {"returned", "raised"} /\ variant = "ephem" /\ ~Resolved(events))
        => (pc = "returned" /\ rec.visibility = "none")

\* The Sun is resolved, the Moon's solver call raises.
C11_Witness ==
    /\ pc = "returned" /\ variant = "ephem"
    /\ ~events.sun.raises /\ events.sun.rises # <<>> /\ events.sun.sets # <<>>
    /\ events.moon.raises
    /\ rec.visibility = "none"

\* The Moon rose that day and did not set: one instant is absent.
C11_WitnessAbsent ==
    /\ pc = "returned" /\ variant = "ephem"
    /\ ~events.sun.raises /\ ~events.moon.raises
    /\ events.moon.rises # <<>> /\ events.moon.sets = <<>>
    /\ rec.visibility = "none"

\* C12: julian_day is strictly increasing over valid proleptic Gregorian
\* dates, years <= 0 included: a later date has a larger Julian Day.
C12_Monotonic ==
    (pc = "returned" /\ variant = "julian")
        => \A d2 \in CalendarDates :
              Before(date, d2) => jd < julian_day(d2[1], d2[2], d2[3])

\* C20: for a valid date of year >= 1 the Julian Day of the next calendar
\* day is larger by exactly one day, over month ends, year ends and the
\* 28/29 February boundary, and every Julian Day is an integer plus one half.
C20_DayCountExact ==
    (pc = "returned" /\ variant = "julian" /\ date[1] >= 1)
        => LET nxt == NextDay(date)
           IN  /\ julian_day(nxt[1], nxt[2], nxt[3]) - jd = 2
               /\ jd % 2 = 1

\* 28 February 1900 (no leap day in a century year) is followed by 1 March.
C20_Witness ==
    /\ pc = "returned" /\ variant = "julian" /\ date = <<1900, 2, 28>>
    /\ NextDay(date) = <<1900, 3, 1>>
    /\ jd = 2 * 2415078 + 1
    /\ julian_day(1900, 3, 1) = jd + 2

\* 1 January 2000 is JD 2451544.5.
C20_WitnessEpoch ==
    /\ pc = "returned" /\ variant = "julian" /\ date = <<2000, 1, 1>>
    /\ jd = 2 * J2000 - 1

\* C13: at phi exactly 0 (the new moon, 180 degrees from the axis) the offset
\* is 180 in magnitude, in the unrounded value and in the record, the day is
\* a pivot day and the half is "upper".
C13_NewMoonSeam ==
    (Annotated /\ phi = 0)
        => /\ sym_offset \in {-Deg(180), Deg(180)}
           /\ rec.sym_offset_from_full \in {-Deg(180), Deg(180)}
           /\ rec.is_pivot = TRUE
           /\ rec.cycle_half = "upper"

C13_Witness ==
    /\ pc = "returned" /\ variant = "offline_phi" /\ phi = 0
    /\ rec.phase_angle = 0 /\ rec.sym_offset_from_full = -Deg(180)
    /\ rec.is_pivot = TRUE /\ rec.cycle_half = "upper"

\* C14: for every phi in [0, 360), values within 0.005 of 360 included, the
\* emitted phase_angle (2 decimals) is in [0, 360) and the emitted
\* sym_offset_from_full (2 decimals) is in (-180, 180].
C14_EmittedRanges ==
    Annotated
        => /\ 0 <= rec.phase_angle /\ rec.phase_angle < Circle
           /\ -Deg(180) < rec.sym_offset_from_full
           /\ rec.sym_offset_from_full <= Deg(180)

\* C14, the phase_angle field alone.
C14_EmittedPhaseBelow360 ==
    Annotated => rec.phase_angle < Circle

\* The windows of a table that contain p.
WindowsAt(bounds, p) ==
    {i \in 1 .. Len(bounds) : InWindow(bounds[i].low, bounds[i].high, p)}

\* C15: in each table no phi of [0, 360] lies in two windows, so the label
\* returned is the label of every window containing phi, whatever the order
\* the windows are visited in.
C15_WindowsDisjoint ==
    Annotated
        => LET bounds  == IF variant = "ephem" THEN EphemBounds ELSE OfflineBounds
               mapping == IF variant = "ephem" THEN EphemMapping ELSE OfflineMapping
           IN  /\ Cardinality(WindowsAt(bounds, phi)) <= 1
               /\ \A i \in WindowsAt(bounds, phi) :
                     mapping[bounds[i].name] = <<rec.hexagram, rec.tiangan>>
               /\ (phi = 0 => Cardinality(WindowsAt(bounds, Circle)) <= 1)

\* 245 is the upper bound of xun, ten degrees below gen, which the loop
\* visits first.
C15_Witness ==
    /\ pc = "returned" /\ variant = "offline_phi" /\ phi = Deg(245)
    /\ WindowsAt(OfflineBounds, phi) = {5}
    /\ rec.hexagram = "Xun"

\* C18: in the closed-form table phi is labelled exactly when 360 - phi is,
\* for every phi in (0, 360).
C18_MirrorPairing ==
    (AnnotatedOffline /\ phi > 0)
        => ((rec.hexagram # None) <=> (assign_offline(Circle - phi)[1] # None))

\* C19: in the closed-form variant Zhen and Dui come with cycle_half "upper"
\* and visibility "evening"; Xun, Gen and Kun with "lower" and "morning".
C19_HalfMonth ==
    AnnotatedOffline
        => /\ rec.hexagram \in {"Zhen", "Dui"}
                => (rec.cycle_half = "upper" /\ rec.visibility = "evening")
           /\ rec.hexagram \in {"Xun", "Gen", "Kun"}
                => (rec.cycle_half = "lower" /\ rec.visibility = "morning")

\* 345 is the upper bound of kun, five degrees below the new-moon band.
C19_Witness ==
    /\ pc = "returned" /\ variant = "offline_phi" /\ phi = Deg(345)
    /\ rec.hexagram = "Kun" /\ rec.cycle_half = "lower"
    /\ rec.visibility = "morning"

\* 15 is the lower bound of zhen, five degrees above the new-moon band.
C19_WitnessZhen ==
    /\ pc = "returned" /\ variant = "offline_phi" /\ phi = Deg(15)
    /\ rec.hexagram = "Zhen" /\ rec.cycle_half = "upper"
    /\ rec.visibility = "evening"

\* The records appended so far are those of the first days of the year, one
\* each and in order; a date on which the annotator raised has the degraded
\* record with that date; the results returned end with 31 December.
C16_OneRecordPerDay ==
    (pc \in {"batch", "batch_done"})
        => /\ \A i \in 1 .. Len(batch.dates) :
                 /\ batch.dates[i] = IF i = 1 THEN <<batch.year, 1, 1>>
                                     ELSE NextDay(batch.dates[i - 1])
                 /\ batch.dates[i][1] = batch.year
           /\ batch.current = IF batch.dates = <<>> THEN <<batch.year, 1, 1>>
                              ELSE NextDay(batch.dates[Len(batch.dates)])
           /\ (batch.dates # <<>>
                 => /\ batch.last.date = batch.dates[Len(batch.dates)]
                    /\ batch.raised
                         => /\ batch.last.phase_angle = None
                            /\ batch.last.sym_offset_from_full = None
                            /\ batch.last.hexagram = None
                            /\ batch.last.tiangan = None
                            /\ batch.last.cycle_half = None
                            /\ batch.last.visibility = "error"
                            /\ batch.last.is_pivot = FALSE)
           /\ (pc = "batch_done"
                 => /\ batch.dates # <<>>
                    /\ batch.dates[Len(batch.dates)] = <<batch.year, 12, 31>>
                    /\ Len(batch.dates) = IF IsLeap(batch.year) THEN 366 ELSE 365)

\* Every pass of the loop appends one record and moves to the next day.
C16_PassAppendsOne ==
    (pc = "batch" /\ pc' = "batch")
        => /\ Len(batch'.dates) = Len(batch.dates) + 1
           /\ batch'.dates[Len(batch'.dates)] = batch.current
           /\ batch'.current = NextDay(batch.current)

\* C16: whatever the dates on which annotate_lunar_state raises, both batch
\* loops keep one record per calendar day in ascending order from 1 January,
\* a raising date giving the degraded record of that date; every pass adds
\* the record of the next day, no record is dated outside the year, and the
\* results returned end with 31 December.
C16_BatchNeverAborts ==
    /\ []C16_OneRecordPerDay
    /\ [][C16_PassAppendsOne]_vars

\* The 727 driver returned after the annotator raised on 31 December.
C16_Witness ==
    /\ pc = "batch_done" /\ batch.driver = "batch_process_727"
    /\ Len(batch.dates) = 365 /\ batch.raised
    /\ batch.last.date = <<727, 12, 31>> /\ batch.last.visibility = "error"

\* generate_year_data returned for the leap year 728 with no failure on the
\* last day.
C16_WitnessLeapYear ==
    /\ pc = "batch_done" /\ batch.driver = "multi_year_comparison"
    /\ batch.year = 728 /\ Len(batch.dates) = 366 /\ ~batch.raised
    /\ batch.last.visibility # "error"

====
